---- MODULE Spec2Model ----
(***************************************************************************)
(* SALP (scripts/salp.py): the HumanInTheLoopProcessor application as a    *)
(* state machine.  The application object is one record, `app`; every      *)
(* method of the class is an operator from application state to            *)
(* application state, so that a handler that calls other handlers          *)
(* (enter_color_picker_mode -> cancel_drawing, on_slider_change ->         *)
(* run_detection_pipeline -> deselect_roi, ...) is the composition of      *)
(* their operators.  The OpenCV, NumPy and Tk primitives the handlers      *)
(* call are modelled by what they compute on the values of the model.      *)
(***************************************************************************)
EXTENDS Integers, Sequences, FiniteSets, TLC

VARIABLES
    app,      \* the HumanInTheLoopProcessor object (its fields and widget states)
    event,    \* the handler that ran last, with its input and the mode it ran in
    numpy2    \* the installed NumPy: TRUE for NumPy >= 2.0, FALSE for NumPy 1.x

vars == <<app, event, numpy2>>

-----------------------------------------------------------------------------
(* Bounds of the model *)

\* most points of one manual drawing
MaxPts == 3
\* most regions the ROI list holds when a manual drawing is started
MaxRois == 2
\* most snapshots on the colour picker's undo stack
MaxHist == 2

-----------------------------------------------------------------------------
(* Values *)

Max2(a, b) == IF a >= b THEN a ELSE b
Min2(a, b) == IF a <= b THEN a ELSE b
Abs(a) == IF a < 0 THEN 0 - a ELSE a

\* The nearest integer to n / d (n >= 0, d > 0), ties to the even one: cvRound.
RoundHalfEven(n, d) ==
    LET q == n \div d
        r == n % d
    IN  IF 2 * r < d THEN q
        ELSE IF 2 * r > d THEN q + 1
        ELSE IF q % 2 = 0 THEN q ELSE q + 1

\* saturate_cast<uchar>
saturate_u8(v) == IF v > 255 THEN 255 ELSE IF v < 0 THEN 0 ELSE v

\* python max(a, b) / min(a, b) of two numbers
pymax(a, b) == Max2(a, b)
pymin(a, b) == Min2(a, b)

-----------------------------------------------------------------------------
(* Images.  An image is a record [w, h, px]: px[<<x, y>>] is the pixel     *)
(* <<b, g, r>> in column x of row y.  cv2.imread gives None for a file it  *)
(* cannot read.                                                            *)

Pixels(img) == (0 .. img.w - 1) \X (0 .. img.h - 1)

\* pixel colours of the model's images, <<b, g, r>>
Black == <<0, 0, 0>>
Green == <<64, 128, 64>>
Red   == <<64, 64, 128>>
Pale  == <<250, 250, 240>>
Olive == <<64, 128, 128>>

InRect(p, x0, y0, x1, y1) == p[1] >= x0 /\ p[1] <= x1 /\ p[2] >= y0 /\ p[2] <= y1

\* three objects on a black ground: two of 2x2 pixels and one of one pixel
ImgThree ==
    [w |-> 8, h |-> 4,
     px |-> [p \in (0 .. 7) \X (0 .. 3) |->
                IF InRect(p, 1, 1, 2, 2) THEN Green
                ELSE IF InRect(p, 4, 1, 5, 2) THEN Olive
                ELSE IF p = <<7, 0>> THEN Green
                ELSE Black]]

\* one 3x2 object on a pale ground
ImgOne ==
    [w |-> 5, h |-> 4,
     px |-> [p \in (0 .. 4) \X (0 .. 3) |->
                IF InRect(p, 1, 1, 3, 2) THEN Green ELSE Pale]]

\* a row of five colours, for the colour picker: hue 0, a pale pixel of low
\* saturation and high value, a mid-range green, hue 177, and black
Rose == <<70, 64, 128>>

ImgRow ==
    [w |-> 5, h |-> 1,
     px |-> [p \in (0 .. 4) \X {0} |-> <<Red, Pale, Green, Rose, Black>>[p[1] + 1]]]

\* two objects of 2x2 pixels one column apart, and one pixel further right,
\* on a black ground two rows high
ImgPair ==
    [w |-> 9, h |-> 2,
     px |-> [p \in (0 .. 8) \X (0 .. 1) |->
                IF InRect(p, 0, 0, 1, 1) THEN Green
                ELSE IF InRect(p, 3, 0, 4, 1) THEN Olive
                ELSE IF p = <<7, 0>> THEN Green
                ELSE Black]]

-----------------------------------------------------------------------------
(* OpenCV primitives of run_detection_pipeline *)

\* cv2.convertScaleAbs(image, alpha = contrast, beta = 0) on one pixel; the
\* contrast is held in tenths (the slider's resolution is 0.1)
convertScaleAbs(pixel, contrast10) ==
    [i \in 1 .. 3 |-> saturate_u8(RoundHalfEven(pixel[i] * contrast10, 10))]

\* cv2's 8-bit BGR -> HSV (hue range 180): its fixed-point division tables
sdiv_table(i) == IF i = 0 THEN 0 ELSE RoundHalfEven(255 * 4096, i)
hdiv_table180(i) == IF i = 0 THEN 0 ELSE RoundHalfEven(180 * 4096, 6 * i)

BGR2HSV(pixel) ==
    LET b == pixel[1]
        g == pixel[2]
        r == pixel[3]
        v == Max2(b, Max2(g, r))
        vmin == Min2(b, Min2(g, r))
        diff == v - vmin
        s == (diff * sdiv_table(v) + 2048) \div 4096
        hraw == IF v = r THEN g - b
                ELSE IF v = g THEN b - r + 2 * diff
                ELSE r - g + 4 * diff
        h0 == (hraw * hdiv_table180(diff) + 2048) \div 4096
        h == IF h0 < 0 THEN h0 + 180 ELSE h0
    IN  <<saturate_u8(h), saturate_u8(s), v>>

\* cv2.inRange on one pixel: every component within [lower, upper], inclusive
inRange(hsv, lower, upper) ==
    \A i \in 1 .. 3 : lower[i] <= hsv[i] /\ hsv[i] <= upper[i]

-----------------------------------------------------------------------------
(* Pixel sets, contours and morphology.  A binary mask is the set of its   *)
(* foreground pixels; a contour (a region of the ROI list) is a sequence   *)
(* of points <<x, y>>.                                                     *)

SetMin(S) == CHOOSE x \in S : \A y \in S : x <= y
SetMax(S) == CHOOSE x \in S : \A y \in S : x >= y

\* a pixel and its eight neighbours
Neighbours8(p) ==
    {<<p[1] + dx, p[2] + dy>> : dx \in {-1, 0, 1}, dy \in {-1, 0, 1}}

\* the 8-connected component of `mask` that holds `seen`, grown from `frontier`
RECURSIVE Grow(_, _, _)
Grow(frontier, seen, mask) ==
    IF frontier = {} THEN seen
    ELSE LET new == ((UNION {Neighbours8(p) : p \in frontier}) \cap mask) \ seen
         IN  Grow(new, seen \cup new, mask)

\* the first pixel of a non-empty set in raster order (row by row, left to right)
RasterFirst(S) ==
    LET y == SetMin({p[2] : p \in S})
    IN  <<SetMin({p[1] : p \in {q \in S : q[2] = y}}), y>>

\* the connected components of a mask in the order a raster scan meets them
RECURSIVE ComponentsInScanOrder(_)
ComponentsInScanOrder(mask) ==
    IF mask = {} THEN <<>>
    ELSE LET c == Grow({RasterFirst(mask)}, {RasterFirst(mask)}, mask)
         IN  <<c>> \o ComponentsInScanOrder(mask \ c)

Reverse(s) == [i \in 1 .. Len(s) |-> s[Len(s) + 1 - i]]

\* Whether the outer boundary of a component is its bounding rectangle: the
\* shape for which OuterContour below is cv2's CHAIN_APPROX_SIMPLE contour.
OuterBoundaryIsRectangle(c) ==
    LET x0 == SetMin({p[1] : p \in c})
        x1 == SetMax({p[1] : p \in c})
        y0 == SetMin({p[2] : p \in c})
        y1 == SetMax({p[2] : p \in c})
    IN  /\ \A x \in x0 .. x1 : <<x, y0>> \in c /\ <<x, y1>> \in c
        /\ \A y \in y0 .. y1 : <<x0, y>> \in c /\ <<x1, y>> \in c

\* The external contour of a component whose outer boundary is a rectangle,
\* as cv2.findContours(RETR_EXTERNAL, CHAIN_APPROX_SIMPLE) lists it: from the
\* top-left corner, down, right, up; a line keeps its two ends, a pixel itself.
OuterContour(c) ==
    LET x0 == SetMin({p[1] : p \in c})
        x1 == SetMax({p[1] : p \in c})
        y0 == SetMin({p[2] : p \in c})
        y1 == SetMax({p[2] : p \in c})
    IN  IF x0 = x1 /\ y0 = y1 THEN << <<x0, y0>> >>
        ELSE IF x0 = x1 THEN << <<x0, y0>>, <<x0, y1>> >>
        ELSE IF y0 = y1 THEN << <<x0, y0>>, <<x1, y0>> >>
        ELSE << <<x0, y0>>, <<x0, y1>>, <<x1, y1>>, <<x1, y0>> >>

\* cv2.findContours(mask, RETR_EXTERNAL, CHAIN_APPROX_SIMPLE): one contour
\* for each component, the component met last by the scan listed first
findContours(mask) ==
    LET comps == Reverse(ComponentsInScanOrder(mask))
    IN  [i \in 1 .. Len(comps) |-> OuterContour(comps[i])]

\* cv2.pointPolygonTest(contour, pt, False): 1 inside, 0 on an edge, -1
\* outside (the integer branch of OpenCV's implementation)
pointPolygonTest(cnt, ip) ==
    LET n == Len(cnt)
        V0(i) == IF i = 1 THEN cnt[n] ELSE cnt[i - 1]
        Skip(i) ==
            LET v0 == V0(i)
                v == cnt[i]
            IN  \/ (v0[2] <= ip[2] /\ v[2] <= ip[2])
                \/ (v0[2] > ip[2] /\ v[2] > ip[2])
                \/ (v0[1] < ip[1] /\ v[1] < ip[1])
        OnSkipped(i) ==
            LET v0 == V0(i)
                v == cnt[i]
            IN  /\ ip[2] = v[2]
                /\ \/ ip[1] = v[1]
                   \/ /\ ip[2] = v0[2]
                      /\ \/ (v0[1] <= ip[1] /\ ip[1] <= v[1])
                         \/ (v[1] <= ip[1] /\ ip[1] <= v0[1])
        Dist(i) ==
            LET v0 == V0(i)
                v == cnt[i]
            IN  (ip[2] - v0[2]) * (v[1] - v0[1]) - (ip[1] - v0[1]) * (v[2] - v0[2])
        OnEdge(i) == IF Skip(i) THEN OnSkipped(i) ELSE Dist(i) = 0
        Crosses(i) ==
            /\ ~Skip(i)
            /\ IF cnt[i][2] < V0(i)[2] THEN 0 - Dist(i) > 0 ELSE Dist(i) > 0
    IN  IF \E i \in 1 .. n : OnEdge(i) THEN 0
        ELSE IF Cardinality({i \in 1 .. n : Crosses(i)}) % 2 = 0 THEN -1
        ELSE 1

\* cv2.drawContours(mask, contours, -1, 255, -1): the pixels of the image
\* inside or on any of the contours
drawContoursFilled(img, contours) ==
    {p \in Pixels(img) : \E i \in 1 .. Len(contours) : pointPolygonTest(contours[i], p) >= 0}

\* cv2.dilate / cv2.erode with np.ones((k, k)): the kernel's anchor is its
\* centre (k \div 2, k \div 2); pixels outside the image neither set a pixel
\* (dilate) nor clear one (erode)
KernelAt(img, p, k) ==
    {<<x, y>> : x \in (p[1] - (k \div 2)) .. (p[1] - (k \div 2) + k - 1),
                y \in (p[2] - (k \div 2)) .. (p[2] - (k \div 2) + k - 1)}
    \cap Pixels(img)

dilate(img, mask, k) == {p \in Pixels(img) : KernelAt(img, p, k) \cap mask # {}}
erode(img, mask, k) == {p \in Pixels(img) : KernelAt(img, p, k) \subseteq mask}

\* twice cv2.contourArea(contour): the shoelace sum, which is an integer
RECURSIVE ShoelaceSum(_, _)
ShoelaceSum(cnt, i) ==
    IF i > Len(cnt) THEN 0
    ELSE LET p == cnt[i]
             q == IF i = Len(cnt) THEN cnt[1] ELSE cnt[i + 1]
         IN  p[1] * q[2] - q[1] * p[2] + ShoelaceSum(cnt, i + 1)

contourArea2(cnt) == Abs(ShoelaceSum(cnt, 1))

\* an area filter that also drops the contours of area 0
RECURSIVE FilterByArea_positive(_, _, _)
FilterByArea_positive(contours, min_a, max_a) ==
    IF contours = <<>> THEN <<>>
    ELSE (IF contourArea2(Head(contours)) > 0
             /\ 2 * min_a <= contourArea2(Head(contours))
             /\ contourArea2(Head(contours)) <= 2 * max_a
          THEN <<Head(contours)>> ELSE <<>>)
         \o FilterByArea_positive(Tail(contours), min_a, max_a)

\* an area filter whose upper bound is exclusive
RECURSIVE FilterByArea_below_max(_, _, _)
FilterByArea_below_max(contours, min_a, max_a) ==
    IF contours = <<>> THEN <<>>
    ELSE (IF 2 * min_a <= contourArea2(Head(contours))
             /\ contourArea2(Head(contours)) < 2 * max_a
          THEN <<Head(contours)>> ELSE <<>>)
         \o FilterByArea_below_max(Tail(contours), min_a, max_a)

\* [roi for roi in contours if min_a <= cv2.contourArea(roi) <= max_a]
RECURSIVE FilterByArea(_, _, _)
FilterByArea(contours, min_a, max_a) ==
    IF contours = <<>> THEN <<>>
    ELSE (IF 2 * min_a <= contourArea2(Head(contours))
             /\ contourArea2(Head(contours)) <= 2 * max_a
          THEN <<Head(contours)>> ELSE <<>>)
         \o FilterByArea(Tail(contours), min_a, max_a)

-----------------------------------------------------------------------------
(* Tk widgets *)

\* The [from_, to] of each Scale of setup_gui; the contrast in tenths.
ScaleRange ==
    [contrast_value |-> <<5, 30>>,
     h_min |-> <<0, 179>>, h_max |-> <<0, 179>>,
     s_min |-> <<0, 255>>, s_max |-> <<0, 255>>,
     v_min |-> <<0, 255>>, v_max |-> <<0, 255>>,
     roi_expansion |-> <<-50, 50>>,
     min_area |-> <<0, 50000>>, max_area |-> <<0, 500000>>]

\* a Scale.set that takes any value, also one outside [from_, to]
ScaleSet_unclamped(s, slider, value) ==
    [s EXCEPT ![slider] = value]

\* Scale.set(value): Tk keeps the value of a scale within [from_, to]
ScaleSet(s, slider, value) ==
    [s EXCEPT ![slider] =
        Max2(ScaleRange[slider][1], Min2(ScaleRange[slider][2], value))]

NORMAL == "normal"
DISABLED == "disabled"

-----------------------------------------------------------------------------
(* NumPy: the sampled h, s, v are np.uint8 scalars.  With a Python int,    *)
(* NumPy 1.x computes in a wide signed integer; NumPy >= 2.0 keeps uint8   *)
(* and wraps around.                                                       *)

u8_sub(a, b) == IF numpy2 THEN (a - b) % 256 ELSE a - b
u8_add(a, b) == IF numpy2 THEN (a + b) % 256 ELSE a + b

-----------------------------------------------------------------------------
(* ScaleCalibrationWindow: the methods, on the window w.  A point that is  *)
(* None is <<>>.  A float of the form math.dist(p, q) / length is kept     *)
(* exactly, as the square of the distance and the length.                  *)

\* the square of math.dist(p, q)
dist_sq(p, q) == (p[1] - q[1]) * (p[1] - q[1]) + (p[2] - q[2]) * (p[2] - q[2])

\* the float 1.0, the scale_factor of __init__
One == [dist_sq |-> 1, length_real |-> 1]

\* a float x with x == 0
IsZero(x) == x.dist_sq = 0

\* the zoom of the view after reset_view: canvas pixels per image pixel, for
\* an image much smaller than the 900x700 window; view_x = view_y = 0
zoom_level == 20

\* int() of a quotient that is not negative
canvas_to_image_coords(c) == <<c[1] \div zoom_level, c[2] \div zoom_level>>
image_to_canvas_coords(i) == <<i[1] * zoom_level, i[2] * zoom_level>>

\* no calibration window; the fields of an open one are those of __init__
NoCalibration ==
    [open |-> FALSE, p1 |-> <<>>, p2 |-> <<>>, drag_state |-> "",
     selected_point |-> "", scale_factor |-> One, scale_unit |-> "px",
     is_confirmed |-> FALSE]

\* math.dist(image_to_canvas_coords(p), (e.x, e.y)) < 10
NearPoint(p, e) == p # <<>> /\ dist_sq(image_to_canvas_coords(p), e) < 10 * 10

on_press(w, e) ==
    IF NearPoint(w.p1, e)
    THEN [w EXCEPT !.drag_state = "p1", !.selected_point = "p1"]
    ELSE IF NearPoint(w.p2, e)
    THEN [w EXCEPT !.drag_state = "p2", !.selected_point = "p2"]
    ELSE LET coords == canvas_to_image_coords(e)
         IN  IF w.p1 = <<>>
             THEN [w EXCEPT !.p1 = coords, !.selected_point = "p1"]
             ELSE IF w.p2 = <<>>
             THEN [w EXCEPT !.p2 = coords, !.selected_point = "p2"]
             ELSE w

on_drag(w, e) ==
    LET coords == canvas_to_image_coords(e)
    IN  IF w.drag_state = "p1" THEN [w EXCEPT !.p1 = coords]
        ELSE IF w.drag_state = "p2" THEN [w EXCEPT !.p2 = coords]
        ELSE w

\* the mouse moves with no button held
on_hover(w) ==
    IF w.drag_state # "" THEN [w EXCEPT !.drag_state = ""] ELSE w

on_key_press(w, keysym) ==
    LET dx == IF keysym = "Left" THEN -1 ELSE IF keysym = "Right" THEN 1 ELSE 0
        dy == IF keysym = "Up" THEN -1 ELSE IF keysym = "Down" THEN 1 ELSE 0
    IN  IF w.selected_point = "" \/ (dx = 0 /\ dy = 0) THEN w
        ELSE IF w.selected_point = "p1" /\ w.p1 # <<>>
        THEN [w EXCEPT !.p1 = <<w.p1[1] + dx, w.p1[2] + dy>>]
        ELSE IF w.selected_point = "p2" /\ w.p2 # <<>>
        THEN [w EXCEPT !.p2 = <<w.p2[1] + dx, w.p2[2] + dy>>]
        ELSE w

clear_line(w) ==
    [w EXCEPT !.p1 = <<>>, !.p2 = <<>>, !.drag_state = "", !.selected_point = ""]

\* the answer of a simpledialog: None when it is cancelled
None == [cancelled |-> TRUE, value |-> 0]
Answer(v) == [cancelled |-> FALSE, value |-> v]
NoText == [cancelled |-> TRUE, value |-> ""]

\* str.strip() of the units that are entered
strip(unit) ==
    CASE unit = " mm " -> "mm"
      [] unit = "  " -> ""
      [] OTHER -> unit

\* a confirm that takes any length that was entered
confirm_scale_any_length(w, length_real, unit) ==
    IF w.p1 = <<>> \/ w.p2 = <<>> THEN w
    ELSE IF ~length_real.cancelled
            /\ ~unit.cancelled /\ unit.value # "" /\ strip(unit.value) # ""
    THEN [w EXCEPT !.scale_factor = [dist_sq |-> dist_sq(w.p1, w.p2),
                                     length_real |-> length_real.value],
                   !.scale_unit = strip(unit.value),
                   !.is_confirmed = TRUE, !.open = FALSE]
    ELSE w

\* confirm_scale with the answers of its two dialogs; the unit is asked for
\* only after a length above 0
confirm_scale(w, length_real, unit) ==
    IF w.p1 = <<>> \/ w.p2 = <<>> THEN w
    ELSE IF ~length_real.cancelled /\ length_real.value > 0
            /\ ~unit.cancelled /\ unit.value # "" /\ strip(unit.value) # ""
    THEN [w EXCEPT !.scale_factor = [dist_sq |-> dist_sq(w.p1, w.p2),
                                     length_real |-> length_real.value],
                   !.scale_unit = strip(unit.value),
                   !.is_confirmed = TRUE, !.open = FALSE]
    ELSE w

\* ScaleCalibrationWindow.on_closing
calibration_on_closing(w) == [w EXCEPT !.is_confirmed = FALSE, !.open = FALSE]

-----------------------------------------------------------------------------
(* HumanInTheLoopProcessor: the methods, on the application state s *)

\* an image file cv2.imread cannot read
Unreadable == [w |-> 0, h |-> 0, px |-> <<>>]

\* cv2.imread(path): the files of the model's input directories
imread(path) ==
    CASE path = "one.png" -> ImgOne
      [] path = "one_more.png" -> ImgOne
      [] path = "three.png" -> ImgThree
      [] path = "row.png" -> ImgRow
      [] path = "pair.png" -> ImgPair
      [] OTHER -> Unreadable
IsNone(img) == img.w = 0

\* no annotation window; an open one holds the region it was opened on, that
\* region's display ID, and the image it shows (by its index in the batch)
NoWindow == [open |-> FALSE, roi_id |-> 0, roi |-> <<>>, image_index |-> -1]

update_roi_action_buttons(s) ==
    LET state == IF s.selected_roi_index # -1 THEN NORMAL ELSE DISABLED
    IN  [s EXCEPT !.delete_roi_btn = state, !.annotate_roi_btn = state]

\* a select that does not look at the mode
select_roi_in_any_mode(s, index) ==
    update_roi_action_buttons([s EXCEPT !.selected_roi_index = index])

select_roi(s, index) ==
    IF ~s.drawing_mode /\ ~s.color_picker_active
    THEN update_roi_action_buttons([s EXCEPT !.selected_roi_index = index])
    ELSE s

deselect_roi(s) ==
    update_roi_action_buttons([s EXCEPT !.selected_roi_index = -1])

\* steps 1 and 2 of run_detection_pipeline: the pixels of the threshold mask
threshold_mask(img, p) ==
    LET lower == <<p.h_min, p.s_min, p.v_min>>
        upper == <<p.h_max, p.s_max, p.v_max>>
    IN  {q \in Pixels(img) :
            inRange(BGR2HSV(convertScaleAbs(img.px[q], p.contrast_value)),
                    lower, upper)}

\* a morphology step that erodes for a positive expansion and dilates for a
\* negative one
contours_after_morphology_swapped(img, p) ==
    LET contours == findContours(threshold_mask(img, p))
        expansion == p.roi_expansion
        temp_mask == drawContoursFilled(img, contours)
        processed_mask ==
            IF expansion > 0 THEN erode(img, temp_mask, Abs(expansion))
            ELSE dilate(img, temp_mask, Abs(expansion))
    IN  IF expansion # 0 THEN findContours(processed_mask) ELSE contours

\* steps 3 and 4: the contours of the mask and, for an expansion other than
\* 0, the contours re-extracted from their filled mask, dilated or eroded
contours_after_morphology(img, p) ==
    LET contours == findContours(threshold_mask(img, p))
        expansion == p.roi_expansion
        temp_mask == drawContoursFilled(img, contours)
        processed_mask ==
            IF expansion > 0 THEN dilate(img, temp_mask, Abs(expansion))
            ELSE erode(img, temp_mask, Abs(expansion))
    IN  IF expansion # 0 THEN findContours(processed_mask) ELSE contours

\* a pipeline that filters the contours of the mask by area before the
\* morphology step, not after it
detect_filters_first(img, p) ==
    LET contours == FilterByArea(findContours(threshold_mask(img, p)),
                                 p.min_area, p.max_area)
        expansion == p.roi_expansion
        temp_mask == drawContoursFilled(img, contours)
        processed_mask ==
            IF expansion > 0 THEN dilate(img, temp_mask, Abs(expansion))
            ELSE erode(img, temp_mask, Abs(expansion))
    IN  IF expansion # 0 THEN findContours(processed_mask) ELSE contours

\* steps 1 to 5 of run_detection_pipeline: the regions it leaves in final_rois
detect(img, p) ==
    FilterByArea(contours_after_morphology(img, p), p.min_area, p.max_area)

\* a pipeline that keeps the selection
run_detection_pipeline_keeps_selection(s) ==
    IF IsNone(s.original_image) THEN s
    ELSE [s EXCEPT !.final_rois = detect(s.original_image, s)]

\* a pipeline that leaves the regions alone while one of them is selected
run_detection_pipeline_spares_selection(s) ==
    IF IsNone(s.original_image) \/ s.selected_roi_index # -1 THEN s
    ELSE deselect_roi([s EXCEPT !.final_rois = detect(s.original_image, s)])

run_detection_pipeline(s) ==
    IF IsNone(s.original_image) THEN s
    ELSE deselect_roi([s EXCEPT !.final_rois = detect(s.original_image, s)])

\* a slider callback that only redraws
on_slider_change_redraws_only(s) == s

on_slider_change(s) ==
    IF ~s.drawing_mode THEN run_detection_pipeline(s) ELSE s

\* a reset that leaves the contrast as it is
reset_hsv_defaults_keeps_contrast(s) ==
    LET s2 == ScaleSet(ScaleSet(s, "h_min", 2), "h_max", 91)
        s3 == ScaleSet(ScaleSet(s2, "s_min", 43), "s_max", 164)
        s4 == ScaleSet(ScaleSet(s3, "v_min", 48), "v_max", 196)
    IN  on_slider_change(s4)

reset_hsv_defaults(s) ==
    LET s1 == ScaleSet(s, "contrast_value", 10)
        s2 == ScaleSet(ScaleSet(s1, "h_min", 2), "h_max", 91)
        s3 == ScaleSet(ScaleSet(s2, "s_min", 43), "s_max", 164)
        s4 == ScaleSet(ScaleSet(s3, "v_min", 48), "v_max", 196)
    IN  on_slider_change(s4)

cancel_drawing(s) ==
    update_roi_action_buttons(
        [s EXCEPT !.drawing_mode = FALSE, !.new_roi_points = <<>>,
                  !.draw_roi_btn_shown = TRUE, !.finish_draw_btn = DISABLED])

exit_color_picker_mode(s) ==
    update_roi_action_buttons(
        [s EXCEPT !.color_picker_active = FALSE, !.start_color_pick_btn_shown = TRUE])

enter_drawing_mode(s) ==
    LET s1 == exit_color_picker_mode(s)
        s2 == deselect_roi([s1 EXCEPT !.drawing_mode = TRUE])
    IN  [s2 EXCEPT !.new_roi_points = <<>>, !.draw_roi_btn_shown = FALSE]

\* a finalize that puts the new region first
finalize_roi_prepends(s) ==
    cancel_drawing(
        IF Len(s.new_roi_points) >= 3
        THEN [s EXCEPT !.final_rois = <<s.new_roi_points>> \o s.final_rois]
        ELSE s)

\* a finalize that commits any drawing that has a point
finalize_roi_commits_short(s) ==
    cancel_drawing(
        IF Len(s.new_roi_points) >= 1
        THEN [s EXCEPT !.final_rois = Append(s.final_rois, s.new_roi_points)]
        ELSE s)

finalize_roi(s) ==
    cancel_drawing(
        IF Len(s.new_roi_points) >= 3
        THEN [s EXCEPT !.final_rois = Append(s.final_rois, s.new_roi_points)]
        ELSE s)

\* entering the colour picker with the undo stack of the session before
enter_color_picker_mode_keeps_history(s) ==
    LET s1 == cancel_drawing(s)
    IN  [s1 EXCEPT !.color_picker_active = TRUE,
                   !.start_color_pick_btn_shown = FALSE,
                   !.undo_color_pick_btn = DISABLED]

\* entering the colour picker without cancelling a drawing
enter_color_picker_mode_keeps_drawing(s) ==
    [s EXCEPT !.color_picker_active = TRUE, !.color_picker_history = <<>>,
              !.start_color_pick_btn_shown = FALSE,
              !.undo_color_pick_btn = DISABLED]

enter_color_picker_mode(s) ==
    LET s1 == cancel_drawing(s)
    IN  [s1 EXCEPT !.color_picker_active = TRUE, !.color_picker_history = <<>>,
                   !.start_color_pick_btn_shown = FALSE,
                   !.undo_color_pick_btn = DISABLED]

\* the tolerances of a first pick, for hue and for saturation / value
H_TOL == 5
SV_TOL == 25

\* a pick that always sets the range around the sample
handle_color_pick_always_first(s, img_x, img_y) ==
    IF ~(0 <= img_y /\ img_y < s.original_image.h
         /\ 0 <= img_x /\ img_x < s.original_image.w)
    THEN s
    ELSE
    LET current_state == <<s.h_min, s.h_max, s.s_min, s.s_max, s.v_min, s.v_max>>
        s1 == [s EXCEPT !.color_picker_history = Append(@, current_state),
                        !.undo_color_pick_btn = NORMAL]
        hsv_color == BGR2HSV(s.original_image.px[<<img_x, img_y>>])
        a1 == ScaleSet(s1, "h_min", pymax(0, u8_sub(hsv_color[1], H_TOL)))
        a2 == ScaleSet(a1, "h_max", pymin(179, u8_add(hsv_color[1], H_TOL)))
        a3 == ScaleSet(a2, "s_min", pymax(0, u8_sub(hsv_color[2], SV_TOL)))
        a4 == ScaleSet(a3, "s_max", pymin(255, u8_add(hsv_color[2], SV_TOL)))
        a5 == ScaleSet(a4, "v_min", pymax(0, u8_sub(hsv_color[3], SV_TOL)))
    IN  on_slider_change(ScaleSet(a5, "v_max", pymin(255, u8_add(hsv_color[3], SV_TOL))))

handle_color_pick(s, img_x, img_y) ==
    IF ~(0 <= img_y /\ img_y < s.original_image.h
         /\ 0 <= img_x /\ img_x < s.original_image.w)
    THEN s
    ELSE
    LET current_state == <<s.h_min, s.h_max, s.s_min, s.s_max, s.v_min, s.v_max>>
        s1 == [s EXCEPT !.color_picker_history = Append(@, current_state),
                        !.undo_color_pick_btn = NORMAL]
        hsv_color == BGR2HSV(s.original_image.px[<<img_x, img_y>>])
        h == hsv_color[1]
        sa == hsv_color[2]
        v == hsv_color[3]
        first ==
            LET a1 == ScaleSet(s1, "h_min", pymax(0, u8_sub(h, H_TOL)))
                a2 == ScaleSet(a1, "h_max", pymin(179, u8_add(h, H_TOL)))
                a3 == ScaleSet(a2, "s_min", pymax(0, u8_sub(sa, SV_TOL)))
                a4 == ScaleSet(a3, "s_max", pymin(255, u8_add(sa, SV_TOL)))
                a5 == ScaleSet(a4, "v_min", pymax(0, u8_sub(v, SV_TOL)))
            IN  ScaleSet(a5, "v_max", pymin(255, u8_add(v, SV_TOL)))
        later ==
            LET a1 == ScaleSet(s1, "h_min", pymin(s1.h_min, h))
                a2 == ScaleSet(a1, "h_max", pymax(a1.h_max, h))
                a3 == ScaleSet(a2, "s_min", pymin(a2.s_min, sa))
                a4 == ScaleSet(a3, "s_max", pymax(a3.s_max, sa))
                a5 == ScaleSet(a4, "v_min", pymin(a4.v_min, v))
            IN  ScaleSet(a5, "v_max", pymax(a5.v_max, v))
    IN  on_slider_change(IF Len(s1.color_picker_history) = 1 THEN first ELSE later)

\* an undo that restores every bound but v_max
undo_last_color_pick_forgets_v_max(s) ==
    LET h == s.color_picker_history
        popped ==
            IF h # <<>>
            THEN LET last_state == h[Len(h)]
                     s1 == [s EXCEPT !.color_picker_history = SubSeq(h, 1, Len(h) - 1)]
                     a1 == ScaleSet(ScaleSet(s1, "h_min", last_state[1]), "h_max", last_state[2])
                     a2 == ScaleSet(ScaleSet(a1, "s_min", last_state[3]), "s_max", last_state[4])
                 IN  on_slider_change(ScaleSet(a2, "v_min", last_state[5]))
            ELSE s
    IN  IF popped.color_picker_history = <<>>
        THEN [popped EXCEPT !.undo_color_pick_btn = DISABLED]
        ELSE popped

undo_last_color_pick(s) ==
    LET h == s.color_picker_history
        popped ==
            IF h # <<>>
            THEN LET last_state == h[Len(h)]
                     s1 == [s EXCEPT !.color_picker_history = SubSeq(h, 1, Len(h) - 1)]
                     a1 == ScaleSet(ScaleSet(s1, "h_min", last_state[1]), "h_max", last_state[2])
                     a2 == ScaleSet(ScaleSet(a1, "s_min", last_state[3]), "s_max", last_state[4])
                     a3 == ScaleSet(ScaleSet(a2, "v_min", last_state[5]), "v_max", last_state[6])
                 IN  on_slider_change(a3)
            ELSE s
    IN  IF popped.color_picker_history = <<>>
        THEN [popped EXCEPT !.undo_color_pick_btn = DISABLED]
        ELSE popped

\* the loop of handle_image_left_click over the regions, last to first
RECURSIVE clicked_roi_index(_, _, _)
clicked_roi_index(rois, i, pt) ==
    IF i < 0 THEN -1
    ELSE IF pointPolygonTest(rois[i + 1], pt) >= 0 THEN i
    ELSE clicked_roi_index(rois, i - 1, pt)

handle_image_left_click(s, img_x, img_y) ==
    IF s.color_picker_active THEN handle_color_pick(s, img_x, img_y)
    ELSE IF s.drawing_mode
    THEN LET s1 == [s EXCEPT !.new_roi_points = Append(@, <<img_x, img_y>>)]
         IN  IF Len(s1.new_roi_points) >= 3
             THEN [s1 EXCEPT !.finish_draw_btn = NORMAL]
             ELSE s1
    ELSE LET i == clicked_roi_index(s.final_rois, Len(s.final_rois) - 1, <<img_x, img_y>>)
         IN  IF i # -1 THEN select_roi(s, i) ELSE deselect_roi(s)

\* a dict without key k
DictDel(d, k) == [j \in DOMAIN d \ {k} |-> d[j]]
\* d[k] = v
DictSet(d, k, v) == [j \in DOMAIN d \cup {k} |-> IF j = k THEN v ELSE d[j]]

\* list.pop(index), 0-based
ListPop(l, index) ==
    [j \in 1 .. Len(l) - 1 |-> IF j <= index THEN l[j] ELSE l[j + 1]]

\* a delete that keeps the annotation of the deleted region
delete_selected_roi_keeps_annotation(s) ==
    IF s.selected_roi_index # -1
    THEN deselect_roi([s EXCEPT !.final_rois = ListPop(@, s.selected_roi_index)])
    ELSE s

\* a delete without the test for a selection: list.pop(-1) removes the last
delete_selected_roi_unguarded(s) ==
    LET index_to_delete ==
            IF s.selected_roi_index # -1 THEN s.selected_roi_index
            ELSE Len(s.final_rois) - 1
    IN  IF s.final_rois = <<>> THEN s
        ELSE deselect_roi([s EXCEPT !.final_rois = ListPop(@, index_to_delete),
                                    !.manual_annotations =
                                        IF (index_to_delete + 1) \in DOMAIN @
                                        THEN DictDel(@, index_to_delete + 1) ELSE @])

\* a delete that leaves the selection on the position of the deleted region
delete_selected_roi_keeps_selection(s) ==
    IF s.selected_roi_index # -1
    THEN LET index_to_delete == s.selected_roi_index
             s1 == [s EXCEPT !.final_rois = ListPop(@, index_to_delete)]
         IN  IF (index_to_delete + 1) \in DOMAIN s1.manual_annotations
             THEN [s1 EXCEPT !.manual_annotations = DictDel(@, index_to_delete + 1)]
             ELSE s1
    ELSE s

delete_selected_roi(s) ==
    IF s.selected_roi_index # -1
    THEN LET index_to_delete == s.selected_roi_index
             s1 == [s EXCEPT !.final_rois = ListPop(@, index_to_delete)]
             s2 == IF (index_to_delete + 1) \in DOMAIN s1.manual_annotations
                   THEN [s1 EXCEPT !.manual_annotations = DictDel(@, index_to_delete + 1)]
                   ELSE s1
         IN  deselect_roi(s2)
    ELSE s

\* annotate_selected_roi up to root.wait_window: the SideAnnotationWindow is
\* open on the selected region.  Its constructor calls np.int0, which NumPy
\* 2.0 removed: there the handler ends in an AttributeError and changes nothing.
annotate_selected_roi(s) ==
    IF s.selected_roi_index # -1 /\ ~numpy2
    THEN [s EXCEPT !.annot_window =
            [open |-> TRUE, roi_id |-> s.selected_roi_index + 1,
             roi |-> s.final_rois[s.selected_roi_index + 1],
             image_index |-> s.current_image_index]]
    ELSE s

\* annotate_selected_roi after root.wait_window returns; the axis lengths of an
\* annotation are those of the minimum-area rectangle of the region the window
\* was opened on (axes_of)
annotation_window_closed(s, is_confirmed, long_texture, short_texture) ==
    LET w == s.annot_window
        annotation_data ==
            [axes_of |-> w.roi, Long_Axis_Texture |-> long_texture,
             Short_Axis_Texture |-> short_texture]
        s1 == [s EXCEPT !.annot_window = NoWindow]
    IN  IF is_confirmed
        THEN [s1 EXCEPT !.manual_annotations = DictSet(@, w.roi_id, annotation_data)]
        ELSE s1

finalize_session(s) ==
    [s EXCEPT !.destroyed = TRUE, !.annot_window = NoWindow]

\* cv2.boundingRect(cnt): x, y, w, h
boundingRect(cnt) ==
    LET xs == {cnt[i][1] : i \in DOMAIN cnt}
        ys == {cnt[i][2] : i \in DOMAIN cnt}
    IN  <<SetMin(xs), SetMin(ys), SetMax(xs) - SetMin(xs) + 1, SetMax(ys) - SetMin(ys) + 1>>

\* cv2.arcLength(cnt, True), kept exactly: the squares of the lengths of the
\* edges of the closed polygon, the perimeter being the sum of their roots
arcLength(cnt) ==
    [i \in DOMAIN cnt |-> dist_sq(cnt[i], cnt[(i % Len(cnt)) + 1])]

\* pixel_perimeter == 0
PerimeterIsZero(edges) == \A i \in DOMAIN edges : edges[i] = 0

\* twice the signed area of the triangle a, b, p
cross(a, b, p) == (b[1] - a[1]) * (p[2] - a[2]) - (b[2] - a[2]) * (p[1] - a[1])

\* cv2.convexHull, as the directed edges of the hull: every point lies on one
\* side of an edge or on it, between its ends
HullEdges(P) ==
    {e \in P \X P :
        /\ e[1] # e[2]
        /\ \A p \in P :
              /\ cross(e[1], e[2], p) >= 0
              /\ cross(e[1], e[2], p) = 0 =>
                    (p[1] - e[1][1]) * (p[1] - e[2][1])
                    + (p[2] - e[1][2]) * (p[2] - e[2][2]) <= 0}

\* the shoelace sum over a set of directed edges
ShoelaceOfEdges(E) ==
    LET sum[S \in SUBSET E] ==
            IF S = {} THEN 0
            ELSE LET e == CHOOSE x \in S : TRUE
                 IN  e[1][1] * e[2][2] - e[2][1] * e[1][2] + sum[S \ {e}]
    IN  sum[E]

\* twice cv2.contourArea(cv2.convexHull(cnt))
hullArea2(cnt) == Abs(ShoelaceOfEdges(HullEdges({cnt[i] : i \in DOMAIN cnt})))

\* the sentinels of handle_accept: the ratio 0, the circularity 0, and
\* np.nan for the orientation
ZeroRatio == [n |-> 0, d |-> 1]
ZeroCircularity == [four_pi_area2 |-> 0, perimeter |-> <<>>]
NaN == [nan |-> TRUE, fitEllipse |-> <<>>]

\* the measurements handle_accept computes for a region, each quotient kept
\* as its numerator and denominator (areas doubled); the three scaled values
\* divide by scale_factor, which handle_accept has found not to be 0
measurements(s, roi) ==
    LET pixel_area2 == contourArea2(roi)
        pixel_perimeter == arcLength(roi)
        w == boundingRect(roi)[3]
        h == boundingRect(roi)[4]
        hull_area2 == hullArea2(roi)
    IN  [Aspect_Ratio |-> IF h # 0 THEN [n |-> w, d |-> h] ELSE ZeroRatio,
         Solidity_Ratio |-> IF hull_area2 # 0
                            THEN [n |-> pixel_area2, d |-> hull_area2]
                            ELSE ZeroRatio,
         Circularity_Ratio |-> IF ~PerimeterIsZero(pixel_perimeter)
                               THEN [four_pi_area2 |-> pixel_area2,
                                     perimeter |-> pixel_perimeter]
                               ELSE ZeroCircularity,
         Orientation_Angle |-> IF Len(roi) >= 5
                               THEN [nan |-> FALSE, fitEllipse |-> roi]
                               ELSE NaN,
         Area |-> [area2 |-> pixel_area2, scale_factor |-> s.scale_factor],
         Perimeter |-> [perimeter |-> pixel_perimeter,
                        scale_factor |-> s.scale_factor],
         Equiv_Diameter |-> [area2 |-> pixel_area2,
                             scale_factor |-> s.scale_factor]]

\* rows whose ROI_ID is the 0-based index of the region
RECURSIVE image_results_zero_based(_, _)
image_results_zero_based(s, i) ==
    IF i > Len(s.final_rois) THEN <<>>
    ELSE << [Image_Number |-> s.current_image_index + 1,
             ROI_ID |-> i - 1,
             roi |-> s.final_rois[i],
             measured |-> measurements(s, s.final_rois[i]),
             annotated |-> i \in DOMAIN s.manual_annotations,
             annotation |-> IF i \in DOMAIN s.manual_annotations
                            THEN s.manual_annotations[i]
                            ELSE [axes_of |-> <<>>, Long_Axis_Texture |-> "",
                                  Short_Axis_Texture |-> ""]] >>
         \o image_results_zero_based(s, i + 1)

\* the rows handle_accept appends for the regions i .. n of final_rois
RECURSIVE image_results(_, _)
image_results(s, i) ==
    IF i > Len(s.final_rois) THEN <<>>
    ELSE << [Image_Number |-> s.current_image_index + 1,
             ROI_ID |-> i,
             roi |-> s.final_rois[i],
             measured |-> measurements(s, s.final_rois[i]),
             annotated |-> i \in DOMAIN s.manual_annotations,
             annotation |-> IF i \in DOMAIN s.manual_annotations
                            THEN s.manual_annotations[i]
                            ELSE [axes_of |-> <<>>, Long_Axis_Texture |-> "",
                                  Short_Axis_Texture |-> ""]] >>
         \o image_results(s, i + 1)

RECURSIVE process_next_image(_)
RECURSIVE handle_skip(_, _)

\* a process_next_image that does not end the session after the last image
process_next_image_never_finalizes(s) ==
    IF s.current_image_index >= s.total_images THEN s
    ELSE LET s1 == [s EXCEPT !.manual_annotations = <<>>]
             s2 == deselect_roi(exit_color_picker_mode(cancel_drawing(s1)))
             s3 == [s2 EXCEPT !.original_image = imread(s.image_paths[s.current_image_index + 1])]
         IN  IF IsNone(s3.original_image) THEN handle_skip(s3, TRUE)
             ELSE reset_hsv_defaults(s3)

process_next_image(s) ==
    IF s.current_image_index >= s.total_images THEN finalize_session(s)
    ELSE LET s1 == [s EXCEPT !.manual_annotations = <<>>]
             s2 == deselect_roi(exit_color_picker_mode(cancel_drawing(s1)))
             s3 == [s2 EXCEPT !.original_image = imread(s.image_paths[s.current_image_index + 1])]
         IN  IF IsNone(s3.original_image) THEN handle_skip(s3, TRUE)
             ELSE reset_hsv_defaults(s3)

\* a skip that copies the file to skipped/ also when it cannot be read
handle_skip_copies_corrupt(s, is_corrupt) ==
    process_next_image([s EXCEPT !.current_image_index = @ + 1,
                                 !.skipped = Append(@, s.current_image_index + 1)])

\* `skipped` lists the files (by image number) copied to skipped/
handle_skip(s, is_corrupt) ==
    process_next_image([s EXCEPT !.current_image_index = @ + 1,
                                 !.skipped = IF is_corrupt THEN @ ELSE Append(@, s.current_image_index + 1)])

\* handle_accept ends in an exception, with nothing changed, in two cases:
\* while the calibration window is open results_df is still None (it is set
\* by setup_results_table, after the calibration), and with a scale_factor
\* of 0 the scaled values of the first region divide by zero.
handle_accept(s) ==
    IF s.calib_window.open THEN s
    ELSE IF s.final_rois # <<>> /\ IsZero(s.scale_factor) THEN s
    ELSE LET s1 == [s EXCEPT !.results_df = @ \o image_results(s, 1)]
         IN  process_next_image([s1 EXCEPT !.current_image_index = @ + 1])

\* the sliders load_settings sets, in its order: the slider, the key of the
\* preset it is read from, and the default settings.get gives a missing key
SettingsKeys ==
    << <<"contrast_value", "contrast", 10>>,
       <<"h_min", "h_min", 0>>, <<"h_max", "h_max", 179>>,
       <<"s_min", "s_min", 0>>, <<"s_max", "s_max", 255>>,
       <<"v_min", "v_min", 0>>, <<"v_max", "v_max", 255>>,
       <<"roi_expansion", "roi_expansion", 0>>,
       <<"min_area", "min_area", 1000>>, <<"max_area", "max_area", 40000>> >>

RECURSIVE apply_settings(_, _, _)
apply_settings(s, settings, i) ==
    IF i > Len(SettingsKeys) THEN s
    ELSE LET key == SettingsKeys[i][2]
             value == IF key \in DOMAIN settings THEN settings[key] ELSE SettingsKeys[i][3]
         IN  apply_settings(ScaleSet(s, SettingsKeys[i][1], value), settings, i + 1)

\* load_settings with a file that parses to the dict `settings` of numbers
load_settings(s, settings) == on_slider_change(apply_settings(s, settings, 1))

\* the Scale.set calls of load_settings from the i-th on, up to the first
\* value that is not a number: Tk refuses it and load_settings ends there
RECURSIVE apply_settings_until(_, _, _, _)
apply_settings_until(s, settings, not_numbers, i) ==
    IF i > Len(SettingsKeys) \/ SettingsKeys[i][2] \in not_numbers THEN s
    ELSE LET key == SettingsKeys[i][2]
             value == IF key \in DOMAIN settings THEN settings[key] ELSE SettingsKeys[i][3]
         IN  apply_settings_until(ScaleSet(s, SettingsKeys[i][1], value),
                                  settings, not_numbers, i + 1)

\* load_settings reports a failure for this file: it cannot be parsed, or one
\* of its values is not a number
LoadFails(file) == ~file.parses \/ file.not_numbers # {}

\* load_settings on a chosen file: one that json.load cannot parse (nothing
\* is set), or one that parses to the dict `settings`, the values under the
\* keys not_numbers being strings or null.  A Scale whose value was changed
\* before the failure calls its command, on_slider_change, when Tk is next
\* idle; the contrast is a DoubleVar, which has no command.
load_settings_file(s, file) ==
    IF ~file.parses THEN s
    ELSE IF file.not_numbers = {} THEN load_settings(s, file.settings)
    ELSE LET partial == apply_settings_until(s, file.settings, file.not_numbers, 1)
         IN  IF \E i \in 2 .. Len(SettingsKeys) :
                    partial[SettingsKeys[i][1]] # s[SettingsKeys[i][1]]
             THEN on_slider_change(partial)
             ELSE partial

\* __init__: the fields and widgets after setup_gui, for a batch of files
Constructed(batch) ==
    [image_paths |-> batch, total_images |-> Len(batch), current_image_index |-> 0,
     original_image |-> Unreadable,
     contrast_value |-> 10, h_min |-> 2, h_max |-> 91, s_min |-> 43, s_max |-> 164,
     v_min |-> 48, v_max |-> 196, roi_expansion |-> 0, min_area |-> 0, max_area |-> 0,
     final_rois |-> <<>>, selected_roi_index |-> -1, manual_annotations |-> <<>>,
     drawing_mode |-> FALSE, new_roi_points |-> <<>>,
     color_picker_active |-> FALSE, color_picker_history |-> <<>>,
     results_df |-> <<>>, skipped |-> <<>>,
     delete_roi_btn |-> DISABLED, annotate_roi_btn |-> DISABLED,
     finish_draw_btn |-> DISABLED, undo_color_pick_btn |-> NORMAL,
     draw_roi_btn_shown |-> TRUE, start_color_pick_btn_shown |-> TRUE,
     annot_window |-> NoWindow, destroyed |-> FALSE,
     scale_factor |-> One, scale_unit |-> "px", calib_window |-> NoCalibration]

\* start_calibration_or_processing up to root.wait_window, with the answer to
\* "Do you want to set a physical scale": the calibration window is opened on
\* the first image if that can be read
start_calibration_or_processing(s, wants_scale) ==
    IF s.image_paths = <<>> THEN s
    ELSE IF wants_scale /\ ~IsNone(imread(s.image_paths[1]))
    THEN [s EXCEPT !.calib_window = [NoCalibration EXCEPT !.open = TRUE]]
    ELSE process_next_image(s)

\* start_calibration_or_processing after root.wait_window returns, the
\* calibration window w destroyed
calibration_window_closed(s, w) ==
    LET s1 == IF w.is_confirmed
              THEN [s EXCEPT !.scale_factor = w.scale_factor,
                             !.scale_unit = w.scale_unit]
              ELSE s
    IN  process_next_image([s1 EXCEPT !.calib_window = NoCalibration])

\* a handler of the calibration window has run and left it as w: the
\* application goes on when the window is destroyed
calibration_handled(s, w) ==
    IF w.open THEN [s EXCEPT !.calib_window = w]
    ELSE calibration_window_closed(s, w)

-----------------------------------------------------------------------------
(* The state machine: one action for each handler.  The handlers are those *)
(* of the code; a specification fixes the sets their inputs are drawn from *)
(* and the handlers it exercises.                                          *)

\* the mode of the editor, in the terms of the specification
Mode(s) ==
    IF s.drawing_mode THEN "Drawing"
    ELSE IF s.color_picker_active THEN "ColorPicking"
    ELSE "Idle"

\* the handler `name` runs on input `arg` and leaves the application in s
Handled(name, arg, s) ==
    /\ app' = s
    /\ event' = [name |-> name, arg |-> arg, mode |-> Mode(app)]
    /\ UNCHANGED numpy2

Alive == ~app.destroyed

\* the application after __init__ has started processing a batch of files
InitWith(batches) ==
    /\ numpy2 \in BOOLEAN
    /\ \E batch \in batches : app = process_next_image(Constructed(batch))
    /\ event = [name |-> "__init__", arg |-> <<>>, mode |-> "Idle"]

\* a slider is dragged to a new value: Tk sets it and calls on_slider_change
OnSliderChange(inputs) ==
    \E in \in inputs :
        /\ Alive
        /\ ScaleSet(app, in[1], in[2]) # app
        /\ Handled("on_slider_change", in, on_slider_change(ScaleSet(app, in[1], in[2])))

ResetHsvDefaults ==
    /\ Alive
    /\ Handled("reset_hsv_defaults", <<>>, reset_hsv_defaults(app))

LoadSettings(presets) ==
    \E settings \in presets :
        /\ Alive
        /\ Handled("load_settings", <<>>, load_settings(app, settings))

\* File > Load Settings, with a file chosen in the dialog; the argument of
\* the event is the message box shown
LoadSettingsFile(files) ==
    \E file \in files :
        /\ Alive
        /\ Handled("load_settings", <<IF LoadFails(file) THEN "Error" ELSE "Success">>,
                   load_settings_file(app, file))

\* a left click on the canvas, at image coordinates pt
HandleImageLeftClick(points) ==
    \E pt \in points :
        /\ Alive
        /\ app.drawing_mode => Len(app.new_roi_points) < MaxPts
        /\ app.color_picker_active => Len(app.color_picker_history) < MaxHist
        /\ Handled("handle_image_left_click", pt, handle_image_left_click(app, pt[1], pt[2]))

\* the Delete button, which is enabled while a region is selected
DeleteSelectedRoi ==
    /\ Alive
    /\ app.delete_roi_btn = NORMAL
    /\ Handled("delete_selected_roi", <<app.selected_roi_index>>, delete_selected_roi(app))

AnnotateSelectedRoi ==
    /\ Alive
    /\ app.annotate_roi_btn = NORMAL
    /\ ~app.annot_window.open
    /\ Handled("annotate_selected_roi", <<app.selected_roi_index>>, annotate_selected_roi(app))

AnnotationConfirmed(textures) ==
    \E t \in textures :
        /\ Alive
        /\ app.annot_window.open
        /\ Handled("annotation_confirmed", <<app.annot_window.roi_id>>,
                   annotation_window_closed(app, TRUE, t[1], t[2]))

AnnotationCancelled ==
    /\ Alive
    /\ app.annot_window.open
    /\ Handled("annotation_cancelled", <<app.annot_window.roi_id>>,
               annotation_window_closed(app, FALSE, "N/A", "N/A"))

EnterDrawingMode ==
    /\ Alive
    /\ app.draw_roi_btn_shown
    /\ Len(app.final_rois) < MaxRois
    /\ Handled("enter_drawing_mode", <<>>, enter_drawing_mode(app))

\* the Cancel Drawing button, or the Escape key in any mode
CancelDrawing ==
    /\ Alive
    /\ Handled("cancel_drawing", <<>>, cancel_drawing(app))

\* the Finish Drawing button, which is enabled from the third point on
FinalizeRoi ==
    /\ Alive
    /\ ~app.draw_roi_btn_shown
    /\ app.finish_draw_btn = NORMAL
    /\ Handled("finalize_roi", <<Len(app.new_roi_points)>>, finalize_roi(app))

EnterColorPickerMode ==
    /\ Alive
    /\ app.start_color_pick_btn_shown
    /\ Handled("enter_color_picker_mode", <<>>, enter_color_picker_mode(app))

ExitColorPickerMode ==
    /\ Alive
    /\ ~app.start_color_pick_btn_shown
    /\ Handled("exit_color_picker_mode", <<>>, exit_color_picker_mode(app))

UndoLastColorPick ==
    /\ Alive
    /\ ~app.start_color_pick_btn_shown
    /\ app.undo_color_pick_btn = NORMAL
    /\ Handled("undo_last_color_pick", <<Len(app.color_picker_history)>>,
               undo_last_color_pick(app))

HandleAccept ==
    /\ Alive
    /\ Handled("handle_accept", <<app.current_image_index>>, handle_accept(app))

HandleSkip ==
    /\ Alive
    /\ Handled("handle_skip", <<app.current_image_index>>, handle_skip(app, FALSE))

OnClosing ==
    /\ Alive
    /\ Handled("on_closing", <<>>, finalize_session(app))

\* The events of the calibration window, at canvas coordinates e
OnPress(points) ==
    \E e \in points :
        /\ Alive /\ app.calib_window.open
        /\ Handled("on_press", e, calibration_handled(app, on_press(app.calib_window, e)))

\* the mouse moves with the left button held
OnDrag(points) ==
    \E e \in points :
        /\ Alive /\ app.calib_window.open
        /\ app.calib_window.drag_state # ""
        /\ Handled("on_drag", e, calibration_handled(app, on_drag(app.calib_window, e)))

OnHover ==
    /\ Alive /\ app.calib_window.open
    /\ Handled("on_hover", <<>>, calibration_handled(app, on_hover(app.calib_window)))

\* an arrow key, while the nudged point stays on the image
OnKeyPress(keys) ==
    \E keysym \in keys :
        LET w == on_key_press(app.calib_window, keysym)
            img == imread(app.image_paths[1])
        IN  /\ Alive /\ app.calib_window.open
            /\ \A p \in {w.p1, w.p2} \ {<<>>} :
                   p[1] \in 0 .. img.w - 1 /\ p[2] \in 0 .. img.h - 1
            /\ Handled("on_key_press", <<keysym>>, calibration_handled(app, w))

ClearLine ==
    /\ Alive /\ app.calib_window.open
    /\ Handled("clear_line", <<>>, calibration_handled(app, clear_line(app.calib_window)))

\* the Confirm Scale button, and the answers to its dialogs
ConfirmScale(lengths, units) ==
    \E length_real \in lengths, unit \in units :
        /\ Alive /\ app.calib_window.open
        /\ Handled("confirm_scale", <<length_real, unit>>,
                   calibration_handled(app, confirm_scale(app.calib_window, length_real, unit)))

\* the calibration window is closed by its window manager button
CalibrationOnClosing ==
    /\ Alive /\ app.calib_window.open
    /\ Handled("calibration_on_closing", <<>>,
               calibration_handled(app, calibration_on_closing(app.calib_window)))

\* The methods called directly, whatever the state of the widgets that are
\* bound to them: finalize_roi, delete_selected_roi and select_roi test their
\* own preconditions.
CallFinalizeRoi ==
    /\ Alive
    /\ Handled("finalize_roi", <<Len(app.new_roi_points)>>, finalize_roi(app))

CallDeleteSelectedRoi ==
    /\ Alive
    /\ Handled("delete_selected_roi", <<app.selected_roi_index>>, delete_selected_roi(app))

CallUndoLastColorPick ==
    /\ Alive
    /\ Handled("undo_last_color_pick", <<Len(app.color_picker_history)>>,
               undo_last_color_pick(app))

CallSelectRoi ==
    \E index \in 0 .. Len(app.final_rois) - 1 :
        /\ Alive
        /\ Handled("select_roi", <<index>>, select_roi(app, index))

-----------------------------------------------------------------------------
(* Spec: tuning the detection and editing its regions, over a batch of an  *)
(* unreadable file and two readable images (load_image_list sorts the      *)
(* paths).                                                                 *)

Batches == { <<"corrupt.png", "one.png", "one_more.png">> }

\* the positions a slider is dragged to
SliderInputs == { <<"max_area", 50>> }

\* the image coordinates of the clicks: on the object
ClickPoints == { <<2, 1>> }

\* the settings presets that are loaded: the keys a preset lacks take the
\* defaults of load_settings
Presets == { [min_area |-> 0, max_area |-> 50, roi_expansion |-> 2] }

Init == InitWith(Batches)

Next ==
    \/ OnSliderChange(SliderInputs)
    \/ ResetHsvDefaults
    \/ LoadSettings(Presets)
    \/ HandleImageLeftClick(ClickPoints)
    \/ DeleteSelectedRoi
    \/ EnterDrawingMode
    \/ CancelDrawing
    \/ FinalizeRoi
    \/ EnterColorPickerMode
    \/ ExitColorPickerMode
    \/ UndoLastColorPick
    \/ HandleSkip

Spec == Init /\ [][Next]_vars

-----------------------------------------------------------------------------
(* SpecRoi: the regions of one image with three objects: selecting,        *)
(* deleting and annotating them.                                           *)

RoiBatches == { <<"three.png">> }

RoiSliderInputs == { <<"max_area", 50>>, <<"max_area", 0>> }

\* clicks on each of the three objects, and on the ground
RoiClickPoints == { <<1, 1>>, <<4, 2>>, <<7, 0>>, <<0, 3>> }

\* the textures chosen in the annotation window, long axis and short axis
TextureChoices == { <<"Smooth", "Rough">> }

InitRoi == InitWith(RoiBatches)

NextRoi ==
    \/ OnSliderChange(RoiSliderInputs)
    \/ HandleImageLeftClick(RoiClickPoints)
    \/ DeleteSelectedRoi
    \/ AnnotateSelectedRoi
    \/ AnnotationConfirmed(TextureChoices)
    \/ AnnotationCancelled

SpecRoi == InitRoi /\ [][NextRoi]_vars

-----------------------------------------------------------------------------
(* SpecDraw: drawing regions by hand on an image with one object.          *)

DrawBatches == { <<"one.png">> }

\* clicks on the object and on two corners of the image
DrawClickPoints == { <<2, 1>>, <<0, 0>>, <<4, 3>> }

InitDraw == InitWith(DrawBatches)

NextDraw ==
    \/ OnSliderChange(RoiSliderInputs)
    \/ HandleImageLeftClick(DrawClickPoints)
    \/ DeleteSelectedRoi
    \/ EnterDrawingMode
    \/ CancelDrawing
    \/ FinalizeRoi

SpecDraw == InitDraw /\ [][NextDraw]_vars

-----------------------------------------------------------------------------
(* SpecApi: the methods of the ROI set called directly, in every mode.     *)

\* clicks on the object
ApiClickPoints == { <<2, 1>> }

NextApi ==
    \/ OnSliderChange(RoiSliderInputs)
    \/ HandleImageLeftClick(ApiClickPoints)
    \/ AnnotateSelectedRoi
    \/ AnnotationConfirmed(TextureChoices)
    \/ EnterDrawingMode
    \/ EnterColorPickerMode
    \/ ExitColorPickerMode
    \/ CallFinalizeRoi
    \/ CallDeleteSelectedRoi
    \/ CallSelectRoi

SpecApi == InitDraw /\ [][NextApi]_vars

-----------------------------------------------------------------------------
(* SpecPicker: the colour picker on a row of colours at the ends and in    *)
(* the middle of the 8-bit ranges.                                         *)

PickerBatches == { <<"row.png">> }

\* a click on each colour of the row, and one outside the image
PickPoints == { <<0, 0>>, <<1, 0>>, <<2, 0>>, <<3, 0>>, <<4, 0>>, <<5, 0>> }

InitPicker == InitWith(PickerBatches)

NextPicker ==
    \/ EnterColorPickerMode
    \/ ExitColorPickerMode
    \/ HandleImageLeftClick(PickPoints)
    \/ UndoLastColorPick

SpecPicker == InitPicker /\ [][NextPicker]_vars

-----------------------------------------------------------------------------
(* SpecPickerApi: the colour picker with undo_last_color_pick called       *)
(* directly, also on an empty undo stack and outside the picker.           *)

NextPickerApi ==
    \/ EnterColorPickerMode
    \/ ExitColorPickerMode
    \/ HandleImageLeftClick(PickPoints)
    \/ CallUndoLastColorPick

SpecPickerApi == InitPicker /\ [][NextPickerApi]_vars

-----------------------------------------------------------------------------
(* SpecDetect: the detection pipeline re-run by the sliders of the post-   *)
(* processing and of the hue, on an image whose objects merge when they    *)
(* are expanded.                                                           *)

DetectBatches == { <<"pair.png">> }

DetectSliderInputs ==
    { <<"roi_expansion", -2>>, <<"roi_expansion", 0>>, <<"roi_expansion", 2>>,
      <<"roi_expansion", 3>>,
      <<"min_area", 0>>, <<"min_area", 2>>,
      <<"max_area", 0>>, <<"max_area", 1>>, <<"max_area", 50>>,
      <<"h_max", 40>>, <<"h_max", 91>> }

InitDetect == InitWith(DetectBatches)

NextDetect == OnSliderChange(DetectSliderInputs)

SpecDetect == InitDetect /\ [][NextDetect]_vars

-----------------------------------------------------------------------------
(* SpecSession: a session over a batch of an image with one object, an     *)
(* unreadable file and an image with three objects: tuning, annotating,    *)
(* accepting and skipping.                                                 *)

SessionBatches == { <<"one.png", "oops.png", "three.png">> }

SessionSliderInputs ==
    { <<"max_area", 50>>, <<"min_area", 1>>, <<"roi_expansion", -2>>,
      <<"contrast_value", 15>> }

\* clicks on an object of either image, and on a second object of the last
SessionClickPoints == { <<2, 1>>, <<4, 1>> }

InitSession == InitWith(SessionBatches)

NextSession ==
    \/ OnSliderChange(SessionSliderInputs)
    \/ HandleImageLeftClick(SessionClickPoints)
    \/ AnnotateSelectedRoi
    \/ AnnotationConfirmed(TextureChoices)
    \/ DeleteSelectedRoi
    \/ HandleAccept
    \/ HandleSkip

SpecSession == InitSession /\ [][NextSession]_vars

-----------------------------------------------------------------------------
(* The properties of the editor's modes and of the detection re-run,       *)
(* checked under Spec.                                                     *)

\* C1: in every reachable state at most one of the modes Drawing and
\* ColorPicking is active, and in-progress points are kept only in Drawing
\* mode: entering Drawing exits ColorPicking, entering ColorPicking cancels
\* Drawing and discards its points.
C1_ModesExclusive ==
    /\ ~(app.drawing_mode /\ app.color_picker_active)
    /\ app.color_picker_active => app.new_roi_points = <<>>
    /\ (event.name = "enter_drawing_mode" => Mode(app) = "Drawing")
    /\ (event.name = "enter_color_picker_mode" => Mode(app) = "ColorPicking")

\* the colour picker was entered from Drawing mode
C1_Witness ==
    /\ event.name = "enter_color_picker_mode"
    /\ event.mode = "Drawing"
    /\ app.color_picker_active

\* what the detection pipeline gives for the current image and parameters
Detected(s) == detect(s.original_image, s)

InImage(img, pt) == 0 <= pt[1] /\ pt[1] < img.w /\ 0 <= pt[2] /\ pt[2] < img.h

\* a step that changes a detection parameter: a slider edit, a reset, a
\* settings load, a colour pick inside the image, an undo
ParameterChanged ==
    \/ event'.name \in {"on_slider_change", "reset_hsv_defaults", "load_settings",
                        "undo_last_color_pick"}
    \/ /\ event'.name = "handle_image_left_click"
       /\ event'.mode = "ColorPicking"
       /\ InImage(app.original_image, event'.arg)

PipelineRan ==
    \/ ParameterChanged /\ ~app.drawing_mode
    \/ event'.name = "handle_skip" /\ ~app'.destroyed

\* C3: whenever the detection pipeline runs, the ROI list afterwards holds
\* only the regions of that run, whatever was added or deleted by hand
\* before, and no region is selected.
C3_PipelineReplaces ==
    [][PipelineRan =>
        /\ app'.final_rois = Detected(app')
        /\ app'.selected_roi_index = -1
        /\ app'.delete_roi_btn = DISABLED
        /\ app'.annotate_roi_btn = DISABLED]_vars

\* the pipeline ran on the second readable image and found its object
C3_Witness ==
    /\ event.name = "handle_skip"
    /\ ~app.destroyed
    /\ app.current_image_index = 2
    /\ app.final_rois # <<>>
    /\ app.final_rois = Detected(app)
    /\ app.selected_roi_index = -1

-----------------------------------------------------------------------------
(* The properties of the ROI set: drawing (SpecDraw), deleting (SpecRoi),  *)
(* and the methods' own preconditions (SpecApi).                           *)

\* C4: finalizing a drawing of n >= 3 points appends one region of those n
\* points, in click order, at the end of the ROI list, where its display ID is
\* the new length of the list, and leaves every earlier region in its place.
C4_FinalizeAppends ==
    [][event'.name = "finalize_roi" /\ Len(app.new_roi_points) >= 3 =>
        LET n == Len(app.final_rois)
            rows == image_results(app', 1)
        IN  /\ Len(app'.final_rois) = n + 1
            /\ app'.final_rois[n + 1] = app.new_roi_points
            /\ \A i \in 1 .. n : app'.final_rois[i] = app.final_rois[i]
            /\ rows[n + 1].ROI_ID = Len(app'.final_rois)
            /\ rows[n + 1].roi = app.new_roi_points]_vars

\* a drawing of three different points was appended after a detected region
C4_Witness ==
    /\ event.name = "finalize_roi"
    /\ event.arg = <<3>>
    /\ Len(app.final_rois) = 2
    /\ app.final_rois[1] = Detected(app)[1]
    /\ Cardinality({app.final_rois[2][i] : i \in 1 .. 3}) = 3

\* C5: finalizing a drawing of fewer than 3 points is rejected: the ROI list
\* is left as it was and the in-progress points are discarded.
C5_ShortDrawingRejected ==
    [][event'.name = "finalize_roi" /\ Len(app.new_roi_points) < 3 =>
        /\ app'.final_rois = app.final_rois
        /\ app'.new_roi_points = <<>>
        /\ ~app'.drawing_mode]_vars

\* finalize_roi ran on a drawing of two points, next to a detected region
C5_Witness ==
    /\ event.name = "finalize_roi"
    /\ event.arg = <<2>>
    /\ event.mode = "Drawing"
    /\ app.final_rois # <<>>
    /\ app.new_roi_points = <<>>

\* C6: deleting the selected region, at index i, removes that region and no
\* other (the regions after it move down by one, in their order), removes the
\* annotation under the display ID i + 1 if there is one, leaves the
\* annotations under every other key as they are, under their keys, and clears
\* the selection.
C6_DeleteSelected ==
    [][event'.name = "delete_selected_roi" /\ app.selected_roi_index # -1 =>
        LET i == app.selected_roi_index
        IN  /\ Len(app'.final_rois) = Len(app.final_rois) - 1
            /\ \A j \in 1 .. Len(app'.final_rois) :
                  app'.final_rois[j] = IF j <= i THEN app.final_rois[j]
                                       ELSE app.final_rois[j + 1]
            /\ DOMAIN app'.manual_annotations = DOMAIN app.manual_annotations \ {i + 1}
            /\ \A k \in DOMAIN app'.manual_annotations :
                  app'.manual_annotations[k] = app.manual_annotations[k]
            /\ app'.selected_roi_index = -1]_vars

\* the first of three regions was deleted: two are left, and the annotations
\* of the regions that were second and third are still under the keys 2 and 3
C6_Witness ==
    /\ event.name = "delete_selected_roi"
    /\ event.arg = <<0>>
    /\ Len(app.final_rois) = 2
    /\ DOMAIN app.manual_annotations = {2, 3}
    /\ app.manual_annotations[2].axes_of = app.final_rois[1]
    /\ app.selected_roi_index = -1

\* C7: delete_selected_roi with no region selected changes nothing: the ROI
\* list, the annotations and the mode are as before, also when the ROI list is
\* empty.
C7_DeleteWithoutSelection ==
    [][event'.name = "delete_selected_roi" /\ app.selected_roi_index = -1 =>
        /\ app'.final_rois = app.final_rois
        /\ app'.manual_annotations = app.manual_annotations
        /\ Mode(app') = Mode(app)
        /\ app' = app]_vars

\* delete_selected_roi ran without a selection on a list of regions, one of
\* them annotated
C7_Witness ==
    /\ event.name = "delete_selected_roi"
    /\ event.arg = <<-1>>
    /\ app.final_rois # <<>>
    /\ app.manual_annotations # <<>>

\* C8: select_roi(index) in Drawing or ColorPicking mode changes nothing, the
\* selected index keeps its value; in Idle mode it sets the selected index to
\* the requested index.
C8_SelectOnlyInIdle ==
    [][event'.name = "select_roi" =>
        IF Mode(app) = "Idle"
        THEN app'.selected_roi_index = event'.arg[1]
        ELSE app' = app]_vars

\* select_roi was called in ColorPicking mode for another region than the
\* selected one, and the selection stayed
C8_Witness ==
    /\ event.name = "select_roi"
    /\ event.mode = "ColorPicking"
    /\ app.selected_roi_index # -1
    /\ app.selected_roi_index # event.arg[1]

-----------------------------------------------------------------------------
(* The properties of the colour picker, checked under SpecPicker.          *)

\* a step that is a colour pick inside the image
Picked ==
    /\ event'.name = "handle_image_left_click"
    /\ event'.mode = "ColorPicking"
    /\ InImage(app.original_image, event'.arg)

\* the HSV value a pick at pt samples
Sample(s, pt) == BGR2HSV(s.original_image.px[pt])

\* C9: the first pick of a picking session, on a pixel of HSV value
\* (h, s, v), sets h_min = max(0, h - 5), h_max = min(179, h + 5),
\* s_min = max(0, s - 25), s_max = min(255, s + 25), v_min = max(0, v - 25),
\* v_max = min(255, v + 25): no bound wraps around.
C9_FirstPickRange ==
    [][Picked /\ event.name = "enter_color_picker_mode" =>
        LET hsv == Sample(app, event'.arg)
        IN  /\ app'.h_min = Max2(0, hsv[1] - 5)
            /\ app'.h_max = Min2(179, hsv[1] + 5)
            /\ app'.s_min = Max2(0, hsv[2] - 25)
            /\ app'.s_max = Min2(255, hsv[2] + 25)
            /\ app'.v_min = Max2(0, hsv[3] - 25)
            /\ app'.v_max = Min2(255, hsv[3] + 25)]_vars

\* the range grows to cover the sample hsv, channel by channel
Grows(old, new, hsv) ==
    /\ new.h_min = Min2(old.h_min, hsv[1]) /\ new.h_max = Max2(old.h_max, hsv[1])
    /\ new.s_min = Min2(old.s_min, hsv[2]) /\ new.s_max = Max2(old.s_max, hsv[2])
    /\ new.v_min = Min2(old.v_min, hsv[3]) /\ new.v_max = Max2(old.v_max, hsv[3])

\* C10 as stated: within one picking session every pick inside the image
\* after the first one only grows the range, also a pick made after undos.
\* (A pick that follows a pick or an undo of the session is not its first.)
C10_LaterPicksGrow ==
    [][Picked /\ (\/ event.name = "undo_last_color_pick"
                  \/ /\ event.name = "handle_image_left_click"
                     /\ InImage(app.original_image, event.arg)) =>
        Grows(app, app', Sample(app, event'.arg))]_vars

\* C10, amended: within one picking session every pick inside the image that
\* is made while an earlier pick of the session is still on the undo stack only
\* grows the range: each min becomes min(old min, sample), each max becomes
\* max(old max, sample).  (A pick made once undos have emptied the stack sets
\* the range around its sample, as a first pick does.)
C10_PicksOnHistoryGrow ==
    [][Picked /\ app.color_picker_history # <<>> =>
        Grows(app, app', Sample(app, event'.arg))]_vars

\* a second pick lowered h_min and raised v_max, below and above what the
\* first pick had set
C10_Witness ==
    /\ event.name = "handle_image_left_click"
    /\ event.mode = "ColorPicking"
    /\ Len(app.color_picker_history) = 2
    /\ app.h_min < app.color_picker_history[2][1]
    /\ app.v_max > app.color_picker_history[2][6]

\* the six bounds of the HSV range, in the order of an undo snapshot
Range(s) == <<s.h_min, s.h_max, s.s_min, s.s_max, s.v_min, s.v_max>>

\* C11: a pick inside the image immediately followed by an undo leaves the
\* six HSV bounds equal to the range before the pick and the undo stack as it
\* was before the pick: the undo of the state a pick has left restores both,
\* and an undo step that follows a pick restores the snapshot the pick pushed.
C11_PickUndoRestores ==
    [][/\ Picked =>
            LET undone == undo_last_color_pick(app')
            IN  /\ Range(undone) = Range(app)
                /\ undone.color_picker_history = app.color_picker_history
       /\ (/\ event'.name = "undo_last_color_pick"
           /\ event.name = "handle_image_left_click"
           /\ event.mode = "ColorPicking"
           /\ InImage(app.original_image, event.arg)) =>
            LET h == app.color_picker_history
            IN  /\ Range(app') = h[Len(h)]
                /\ app'.color_picker_history = SubSeq(h, 1, Len(h) - 1)]_vars

\* a first pick was undone: the range is the one of the new image again, the
\* undo stack is empty again
C11_Witness ==
    /\ event.name = "undo_last_color_pick"
    /\ event.arg = <<1>>
    /\ event.mode = "ColorPicking"
    /\ app.color_picker_history = <<>>
    /\ Range(app) = <<2, 91, 43, 164, 48, 196>>

\* C12: a pick inside the image pushes exactly one snapshot, the range before
\* the pick, on the undo stack; an undo pops exactly the most recent snapshot
\* and restores it; a pick outside the image changes nothing; an undo on an
\* empty stack changes neither the range nor the stack; the stack is empty on
\* entering the colour picker.
C12_UndoStack ==
    [][/\ Picked =>
            app'.color_picker_history = Append(app.color_picker_history, Range(app))
       /\ (/\ event'.name = "handle_image_left_click"
           /\ event'.mode = "ColorPicking"
           /\ ~InImage(app.original_image, event'.arg)) => app' = app
       /\ event'.name = "undo_last_color_pick" =>
            LET h == app.color_picker_history
            IN  IF h # <<>>
                THEN /\ app'.color_picker_history = SubSeq(h, 1, Len(h) - 1)
                     /\ Range(app') = h[Len(h)]
                ELSE /\ app'.color_picker_history = <<>>
                     /\ Range(app') = Range(app)
       /\ event'.name = "enter_color_picker_mode" =>
            app'.color_picker_history = <<>>]_vars

\* the second of two snapshots was popped and restored, the first is still on
\* the stack
C12_Witness ==
    /\ event.name = "undo_last_color_pick"
    /\ event.arg = <<2>>
    /\ Len(app.color_picker_history) = 1
    /\ Range(app) # app.color_picker_history[1]

-----------------------------------------------------------------------------
(* The properties of the detection pipeline, checked under SpecDetect.     *)

\* whether the area of contour c is within [min_area, max_area] of s
AreaWithinBounds(s, c) ==
    2 * s.min_area <= contourArea2(c) /\ contourArea2(c) <= 2 * s.max_area

\* the contours the pipeline holds after its morphology step, for the
\* current image and parameters
AfterMorphology(s) == contours_after_morphology(s.original_image, s)

\* C13: every region the pipeline returns has min_area <= area <= max_area,
\* both bounds inclusive, and every contour present after the morphology step
\* that has is returned: the result is those contours, each once, no other.
C13_AreaFilterExact ==
    [][PipelineRan =>
        \A post \in {AfterMorphology(app')}, rois \in {app'.final_rois} :
            /\ \A j \in DOMAIN rois : AreaWithinBounds(app', rois[j])
            /\ \A j \in DOMAIN rois : \E i \in DOMAIN post : post[i] = rois[j]
            /\ \A i \in DOMAIN post :
                  AreaWithinBounds(app', post[i]) =>
                      \E j \in DOMAIN rois : rois[j] = post[i]
            /\ Len(rois) =
                  Cardinality({i \in DOMAIN post : AreaWithinBounds(app', post[i])})]_vars

\* the filter admitted a contour whose area is max_area and dropped another
C13_Witness ==
    /\ event.name = "on_slider_change"
    /\ app.max_area = 1
    /\ app.final_rois = Detected(app)
    /\ \E j \in DOMAIN app.final_rois : contourArea2(app.final_rois[j]) = 2 * app.max_area
    /\ \E post \in {AfterMorphology(app)} :
          \E i \in DOMAIN post : ~AreaWithinBounds(app, post[i])

\* C14 as stated: with min_area = 0 and max_area = 0 the pipeline returns the
\* empty region list.
C14_EmptyAtZero ==
    [][PipelineRan /\ app'.min_area = 0 /\ app'.max_area = 0 =>
        app'.final_rois = <<>>]_vars

\* C14, amended: with min_area = 0 and max_area = 0 the pipeline returns the
\* contours of area 0 that are present after the morphology step (a single
\* pixel, a line one pixel wide), each of them, and no region of positive area.
C14_ZeroAreaAtZero ==
    [][PipelineRan /\ app'.min_area = 0 /\ app'.max_area = 0 =>
        \A post \in {AfterMorphology(app')}, rois \in {app'.final_rois} :
            /\ \A j \in DOMAIN rois : contourArea2(rois[j]) = 0
            /\ \A i \in DOMAIN post :
                  contourArea2(post[i]) = 0 => \E j \in DOMAIN rois : rois[j] = post[i]
            /\ Len(rois) = Cardinality({i \in DOMAIN post : contourArea2(post[i]) = 0})]_vars

\* with both area bounds at 0 the pipeline returned a region of one pixel and
\* dropped the objects of positive area
C14_Witness ==
    /\ event.name = "on_slider_change"
    /\ app.min_area = 0
    /\ app.max_area = 0
    /\ Len(app.final_rois) = 1
    /\ Len(app.final_rois[1]) = 1
    /\ Len(AfterMorphology(app)) = 3

\* the number of pixels of the filled mask of a list of regions
FilledMaskArea(s, rois) == Cardinality(drawContoursFilled(s.original_image, rois))

\* a step that moves the expansion slider and runs the pipeline
ExpansionChanged ==
    /\ event'.name = "on_slider_change"
    /\ event'.arg[1] = "roi_expansion"
    /\ ~app.drawing_mode
    /\ app.final_rois = Detected(app)

\* C15 as stated: for a fixed image and fixed other parameters, the filled-
\* mask area of the regions detected at the smaller of two expansion radii is
\* at most that of the regions detected at the larger.
C15_AreaMonotone ==
    [][ExpansionChanged =>
        IF app.roi_expansion <= app'.roi_expansion
        THEN FilledMaskArea(app, app.final_rois) <= FilledMaskArea(app', app'.final_rois)
        ELSE FilledMaskArea(app', app'.final_rois) <= FilledMaskArea(app, app.final_rois)]_vars

\* no contour present after the morphology step is above max_area
NoneAboveMax(s) ==
    \A post \in {AfterMorphology(s)} :
        \A i \in DOMAIN post : contourArea2(post[i]) <= 2 * s.max_area

\* C15, amended: for a fixed image and fixed other parameters, the filled-mask
\* area of the regions detected at the smaller of two expansion radii is at
\* most that of the regions detected at the larger, provided that at the larger
\* radius no contour is above max_area.  (A region that grows above max_area
\* is dropped, and the area falls.)
C15_AreaMonotoneWithinMax ==
    [][ExpansionChanged =>
        IF app.roi_expansion <= app'.roi_expansion
        THEN NoneAboveMax(app') =>
                FilledMaskArea(app, app.final_rois) <= FilledMaskArea(app', app'.final_rois)
        ELSE NoneAboveMax(app) =>
                FilledMaskArea(app', app'.final_rois) <= FilledMaskArea(app, app.final_rois)]_vars

\* the expansion was raised to 2 with no contour above max_area: the two
\* objects are one region, and the filled mask has grown past their 9 pixels
C15_Witness ==
    /\ event.name = "on_slider_change"
    /\ event.arg = <<"roi_expansion", 2>>
    /\ app.min_area = 0
    /\ NoneAboveMax(app)
    /\ Len(app.final_rois) = 2
    /\ FilledMaskArea(app, app.final_rois) > 9

\* the application as constructed, with nothing edited, selected, annotated
\* or in progress, holding the image and the detection parameters of s
Untouched(s) ==
    [Constructed(s.image_paths) EXCEPT
        !.original_image = s.original_image,
        !.contrast_value = s.contrast_value,
        !.h_min = s.h_min, !.h_max = s.h_max,
        !.s_min = s.s_min, !.s_max = s.s_max,
        !.v_min = s.v_min, !.v_max = s.v_max,
        !.roi_expansion = s.roi_expansion,
        !.min_area = s.min_area, !.max_area = s.max_area]

\* C16: a run of the pipeline returns the region list that a run on the same
\* image with the same detection parameters returns from an application that
\* holds no mode, selection, manual edit or annotation: the same number of
\* regions, the same vertices, in the same order.
C16_SameInputsSameRegions ==
    [][PipelineRan =>
        app'.final_rois = run_detection_pipeline(Untouched(app')).final_rois]_vars

\* the pipeline ran in ColorPicking mode on an application that held an
\* annotation, and detected a region
C16_Witness ==
    /\ event.name = "on_slider_change"
    /\ event.mode = "ColorPicking"
    /\ app.manual_annotations # <<>>
    /\ app.final_rois # <<>>
    /\ app.final_rois = run_detection_pipeline(Untouched(app)).final_rois

\* the contours of the threshold mask, before the morphology step
BeforeMorphology(s) == findContours(threshold_mask(s.original_image, s))

\* C17: with an expansion other than 0, the area filter is applied to the
\* contours re-extracted after the morphology step, never to those before it:
\* every contour after the step that is within [min_area, max_area] is in the
\* result, also one merged from components that are each below min_area, and
\* no contour that is present only before the step is in the result.
C17_FilterAfterMorphology ==
    [][PipelineRan /\ app'.roi_expansion # 0 =>
        \A raw \in {BeforeMorphology(app')}, post \in {AfterMorphology(app')},
           rois \in {app'.final_rois} :
            /\ \A i \in DOMAIN post :
                  AreaWithinBounds(app', post[i]) =>
                      \E j \in DOMAIN rois : rois[j] = post[i]
            /\ \A i \in DOMAIN raw :
                  (\A k \in DOMAIN post : post[k] # raw[i]) =>
                      \A j \in DOMAIN rois : rois[j] # raw[i]]_vars

\* two objects, each below min_area, were merged by the expansion into the
\* one region of the result
C17_Witness ==
    /\ event.name = "on_slider_change"
    /\ app.roi_expansion = 2
    /\ app.min_area = 2
    /\ app.max_area = 50
    /\ Len(BeforeMorphology(app)) = 3
    /\ FilterByArea(BeforeMorphology(app), app.min_area, app.max_area) = <<>>
    /\ Len(app.final_rois) = 1
    /\ contourArea2(app.final_rois[1]) >= 2 * app.min_area

-----------------------------------------------------------------------------
(* The properties of a session over several images, checked under          *)
(* SpecSession.                                                            *)

\* C18: accept appends one record for each region of the current ROI list, in
\* list order, with ROI_ID the position (1 .. n) and Image_Number the current
\* image index + 1, the record of position k carrying the annotation stored
\* under key k (empty fields if there is none), and leaves every record
\* appended earlier as it was, in its place.
C18_AcceptAppends ==
    [][event'.name = "handle_accept" =>
        LET old == app.results_df
            new == app'.results_df
            n == Len(app.final_rois)
        IN  /\ Len(new) = Len(old) + n
            /\ \A i \in 1 .. Len(old) : new[i] = old[i]
            /\ \A k \in 1 .. n :
                  LET row == new[Len(old) + k]
                  IN  /\ row.ROI_ID = k
                      /\ row.Image_Number = app.current_image_index + 1
                      /\ row.roi = app.final_rois[k]
                      /\ row.annotated = (k \in DOMAIN app.manual_annotations)
                      /\ IF k \in DOMAIN app.manual_annotations
                         THEN row.annotation = app.manual_annotations[k]
                         ELSE /\ row.annotation.Long_Axis_Texture = ""
                              /\ row.annotation.Short_Axis_Texture = ""
                              /\ row.annotation.axes_of = <<>>]_vars

\* the third image was accepted after the first: one record of image 1, then
\* three of image 3 with the IDs 1, 2, 3, one of them annotated
C18_Witness ==
    /\ event.name = "handle_accept"
    /\ Len(app.results_df) = 4
    /\ app.results_df[1].Image_Number = 1
    /\ \A k \in 1 .. 3 : /\ app.results_df[1 + k].Image_Number = 3
                         /\ app.results_df[1 + k].ROI_ID = k
    /\ app.results_df[3].annotated
    /\ ~app.results_df[4].annotated

\* a step that advances to another image: an accept or a skip, with the
\* automatic skips of unreadable files that follow it
Advanced ==
    /\ event'.name \in {"handle_accept", "handle_skip"}
    /\ ~app'.destroyed

\* C19 as stated: when the application advances to another image, the region
\* list, the selection and the manual annotations of the previous image are
\* cleared (the regions are those detected in the new image), and no
\* annotation made on a region of the previous image enters the annotations
\* of the new image, where an accept would record it.
C19_PreviousImageCleared ==
    [][/\ Advanced =>
            /\ app'.manual_annotations = <<>>
            /\ app'.selected_roi_index = -1
            /\ app'.new_roi_points = <<>>
            /\ app'.final_rois = Detected(app')
       /\ event'.name = "annotation_confirmed" =>
            app.annot_window.image_index = app.current_image_index]_vars

\* C20 as stated: at the start of each new image every detection parameter,
\* the expansion radius, min area and max area too, has its fixed default, the
\* value it has when the application starts, whatever the previous image left.
C20_AllParametersReset ==
    [][Advanced =>
        /\ app'.contrast_value = 10
        /\ Range(app') = <<2, 91, 43, 164, 48, 196>>
        /\ app'.roi_expansion = 0
        /\ app'.min_area = 0
        /\ app'.max_area = 0]_vars

\* C20, amended: at the start of each new image the contrast is 1.0 and the
\* six HSV bounds are 2, 91, 43, 164, 48, 196, whatever the previous image
\* left; the expansion radius, min area and max area keep the values the
\* previous image left.
C20_ContrastAndHsvReset ==
    [][Advanced =>
        /\ app'.contrast_value = 10
        /\ Range(app') = <<2, 91, 43, 164, 48, 196>>
        /\ app'.roi_expansion = app.roi_expansion
        /\ app'.min_area = app.min_area
        /\ app'.max_area = app.max_area]_vars

\* the third image was reached by an accept with the expansion, min area and
\* max area that were set on the first
C20_Witness ==
    /\ event.name = "handle_accept"
    /\ ~app.destroyed
    /\ app.current_image_index = 2
    /\ app.contrast_value = 10
    /\ Range(app) = <<2, 91, 43, 164, 48, 196>>
    /\ app.roi_expansion = -2
    /\ app.min_area = 1
    /\ app.max_area = 50

-----------------------------------------------------------------------------
(* SpecHsv: every way the HSV range is written: the six sliders, the       *)
(* colour picker and its undo, the reset and the settings presets.         *)

\* the position an HSV slider is dragged to: a minimum above the default
\* maximum
HsvSliderInputs == { <<"h_min", 100>> }

\* a preset whose minimum lies above its maximum and whose saturation bound
\* lies beyond the slider
HsvPresets == { [h_min |-> 120, h_max |-> 60, s_max |-> 300] }

\* a click on the colour of hue 0, and one on the mid-range green
HsvPickPoints == { <<0, 0>>, <<2, 0>> }

NextHsv ==
    \/ OnSliderChange(HsvSliderInputs)
    \/ ResetHsvDefaults
    \/ LoadSettings(HsvPresets)
    \/ EnterColorPickerMode
    \/ ExitColorPickerMode
    \/ HandleImageLeftClick(HsvPickPoints)
    \/ UndoLastColorPick

SpecHsv == InitPicker /\ [][NextHsv]_vars

\* C21 as stated: in every reachable state each channel of the HSV range is
\* within its limits and ordered: 0 <= h_min <= h_max <= 179,
\* 0 <= s_min <= s_max <= 255 and 0 <= v_min <= v_max <= 255.
C21_HsvRangeOrdered ==
    /\ 0 <= app.h_min /\ app.h_min <= app.h_max /\ app.h_max <= 179
    /\ 0 <= app.s_min /\ app.s_min <= app.s_max /\ app.s_max <= 255
    /\ 0 <= app.v_min /\ app.v_min <= app.v_max /\ app.v_max <= 255

\* C21, amended: in every reachable state each of the six bounds is within
\* the limits of its channel, 0 .. 179 for the hue and 0 .. 255 for the
\* saturation and the value, after any sequence of slider edits, colour
\* picks, undos, resets and settings loads; a minimum may lie above its
\* maximum.
C21_HsvWithinLimits ==
    /\ app.h_min \in 0 .. 179 /\ app.h_max \in 0 .. 179
    /\ app.s_min \in 0 .. 255 /\ app.s_max \in 0 .. 255
    /\ app.v_min \in 0 .. 255 /\ app.v_max \in 0 .. 255

\* a preset with a bound beyond its slider has been loaded, and left a
\* minimum above its maximum
C21_Witness ==
    /\ event.name = "load_settings"
    /\ app.h_min > app.h_max
    /\ app.s_max = 255

-----------------------------------------------------------------------------
(* SpecCalib: the scale calibration at the start of a session, and the     *)
(* accepts that use the scale.  The image has a region of one pixel, which *)
(* the detection keeps at the area limits 0 and 0.                         *)

CalibBatches == { <<"pair.png">> }

\* presses on the canvas at the image pixels (0, 0) and (3, 0), the second
\* also near its centre
CalibPressPoints == { <<0, 0>>, <<65, 0>> }

\* the canvas position a held point is dragged to: on the image pixel (0, 0)
CalibDragPoints == { <<5, 0>> }

CalibKeys == { "Left" }

\* the answers to "What is the REAL length of the line?"
CalibLengths == { None, Answer(0), Answer(-2), Answer(3) }

\* the answers to "What is the unit of measurement?"
CalibUnits == { NoText, Answer(""), Answer("  "), Answer(" mm ") }

CalibSliderInputs == { <<"max_area", 50>> }

InitCalib ==
    /\ numpy2 \in BOOLEAN
    /\ \E batch \in CalibBatches, wants_scale \in BOOLEAN :
          app = start_calibration_or_processing(Constructed(batch), wants_scale)
    /\ event = [name |-> "__init__", arg |-> <<>>, mode |-> "Idle"]

NextCalib ==
    \/ OnPress(CalibPressPoints)
    \/ OnDrag(CalibDragPoints)
    \/ OnHover
    \/ OnKeyPress(CalibKeys)
    \/ ClearLine
    \/ ConfirmScale(CalibLengths, CalibUnits)
    \/ CalibrationOnClosing
    \/ OnSliderChange(CalibSliderInputs)
    \/ HandleAccept

SpecCalib == InitCalib /\ [][NextCalib]_vars

\* the session Scale: the factor and the unit
Scale(s) == <<s.scale_factor, s.scale_unit>>

\* C22: a calibration attempt changes the session Scale only if both points
\* are set, the entered real length is above 0, the unit is not empty after
\* trimming, and the window was confirmed: the Scale is then the distance of
\* the points over the length, in the trimmed unit.  In every other outcome
\* (a missing point, a cancelled or non-positive length, an empty or
\* cancelled unit, the window closed) the Scale keeps its prior value, and
\* the session continues: the window stays open for another attempt, or the
\* first image is processed.
C22_CalibrationOutcome ==
    [][app.calib_window.open =>
        \A w \in {app.calib_window} :
        LET length_real == event'.arg[1]
            unit == event'.arg[2]
            valid == /\ event'.name = "confirm_scale"
                     /\ w.p1 # <<>> /\ w.p2 # <<>>
                     /\ ~length_real.cancelled /\ length_real.value > 0
                     /\ ~unit.cancelled /\ strip(unit.value) # ""
        IN  /\ Scale(app') # Scale(app) => valid
            /\ valid =>
                  /\ Scale(app') = << [dist_sq |-> dist_sq(w.p1, w.p2),
                                       length_real |-> length_real.value],
                                      strip(unit.value) >>
                  /\ ~app'.calib_window.open
            /\ ~valid => Scale(app') = <<One, "px">>
            /\ ~app'.destroyed
            /\ \/ app'.calib_window.open
               \/ ~IsNone(app'.original_image) /\ app'.current_image_index = 0]_vars

\* a calibration was confirmed on a line of 3 pixels that is 3 mm long
C22_Witness ==
    /\ event.name = "confirm_scale"
    /\ ~app.calib_window.open
    /\ app.scale_factor = [dist_sq |-> 9, length_real |-> 3]
    /\ app.scale_unit = "mm"

UnreadableImages(s) ==
    {k \in 1 .. s.total_images : IsNone(imread(s.image_paths[k]))}

\* the index at which the session stops after leaving the image at index i:
\* that of the next file that can be read, or the number of images
NextReadable(s, i) ==
    SetMin({j \in i + 1 .. s.total_images :
               j = s.total_images \/ (j + 1) \notin UnreadableImages(s)})

\* C24: a file that cannot be read is skipped automatically, on the way to
\* the next image, without being copied to skipped/, whereas a skip chosen by
\* the user copies the file of the current image to skipped/; either skip
\* advances the image index by one (an accept or a skip thus stops at the
\* next file that can be read) and appends no measurement record for the
\* image it skips.
C24_SkipCopiesOnlyUserSkips ==
    [][event'.name \in {"handle_accept", "handle_skip"} =>
        LET i == app.current_image_index
            j == app'.current_image_index
            auto == i + 2 .. j
        IN  /\ j = NextReadable(app, i)
            /\ auto \subseteq UnreadableImages(app)
            /\ app'.skipped = IF event'.name = "handle_skip"
                              THEN Append(app.skipped, i + 1)
                              ELSE app.skipped
            /\ event'.name = "handle_skip" => app'.results_df = app.results_df
            /\ \A r \in DOMAIN app'.results_df :
                  /\ app'.results_df[r].Image_Number \notin auto
                  /\ r > Len(app.results_df) =>
                        app'.results_df[r].Image_Number = i + 1]_vars

\* the user skipped the first image, and the unreadable second file was
\* skipped on the way to the third: only the first is in skipped/
C24_Witness ==
    /\ event.name = "handle_skip"
    /\ event.arg = <<0>>
    /\ app.current_image_index = 2
    /\ app.skipped = <<1>>
    /\ 2 \in UnreadableImages(app)

-----------------------------------------------------------------------------
(* SpecSettings: settings presets loaded from files that are sound, that   *)
(* cannot be parsed, or that hold a value that is not a number.            *)

\* a sound preset; text that is not JSON; and a preset whose "h_max" is a
\* string
SettingsFiles ==
    { [parses |-> TRUE, settings |-> [h_min |-> 30, max_area |-> 50], not_numbers |-> {}],
      [parses |-> FALSE, settings |-> [h_min |-> 0], not_numbers |-> {}],
      [parses |-> TRUE, settings |-> [h_min |-> 40, max_area |-> 50],
       not_numbers |-> {"h_max"}] }

SettingsSliderInputs ==
    { <<"max_area", 50>>, <<"max_area", 0>>, <<"contrast_value", 15>>,
      <<"h_min", 2>>, <<"roi_expansion", -2>> }

NextSettings ==
    \/ OnSliderChange(SettingsSliderInputs)
    \/ LoadSettingsFile(SettingsFiles)
    \/ HandleImageLeftClick(ApiClickPoints)
    \/ ResetHsvDefaults

SpecSettings == InitDraw /\ [][NextSettings]_vars

\* the detection parameters
Parameters(s) ==
    [i \in DOMAIN SettingsKeys |-> s[SettingsKeys[i][1]]]

\* C25 as stated: if loading a settings preset reports a failure, every
\* detection parameter (contrast, the six HSV bounds, expansion, min area,
\* max area) and the ROI list have exactly the values they had before the
\* load was attempted.
C25_FailedLoadChangesNothing ==
    [][event'.name = "load_settings" /\ event'.arg = <<"Error">> =>
        /\ Parameters(app') = Parameters(app)
        /\ app'.final_rois = app.final_rois]_vars

\* C26 as stated: whenever the mode is Drawing or ColorPicking no ROI is
\* selected (selected index = -1), so that delete_selected_roi and
\* annotate_selected_roi cannot act on the ROI list while either mode is
\* active.
C26_NoSelectionInModes ==
    [][/\ Mode(app') \in {"Drawing", "ColorPicking"} => app'.selected_roi_index = -1
       /\ /\ event'.name \in {"delete_selected_roi", "annotate_selected_roi"}
          /\ Mode(app) \in {"Drawing", "ColorPicking"}
          => /\ app'.final_rois = app.final_rois
             /\ app'.manual_annotations = app.manual_annotations
             /\ ~app'.annot_window.open]_vars

\* C27: in every reachable state the selected index is either -1 or a valid
\* position in the current ROI list (0 <= index < list length), after any
\* interleaving of detection runs, manual additions, deletions, clicks, mode
\* changes and image changes.
C27_SelectionValid ==
    app.selected_roi_index \in -1 .. Len(app.final_rois) - 1

\* the last of two regions, the one added by hand, is selected
C27_Witness ==
    /\ Len(app.final_rois) = 2
    /\ app.selected_roi_index = 1
    /\ event.name = "handle_image_left_click"

\* C28 as stated: in every reachable state every key of the manual-annotation
\* map is the display ID of a region currently in the ROI list
\* (1 <= key <= list length), after any sequence of annotate, delete, manual
\* add and detection re-runs within an image.
C28_AnnotationKeysValid ==
    DOMAIN app.manual_annotations \subseteq 1 .. Len(app.final_rois)

\* C29 as stated: the session scale_factor is strictly positive in every
\* reachable state, after any sequence of point placements, drags, arrow-key
\* nudges and a confirmed or cancelled calibration, so that the scaled values
\* computed on accept never divide by zero.
C29_ScaleFactorPositive ==
    /\ app.scale_factor.dist_sq > 0
    /\ app.scale_factor.length_real > 0

-----------------------------------------------------------------------------
(* SpecBatch: sessions with a user who keeps accepting or skipping: while  *)
(* the session is alive an accept or a skip is taken in the end.  The      *)
(* batches end in a readable image, end in an unreadable file, start with  *)
(* one, or hold unreadable files only; the image the user sees is the last *)
(* readable one, so the enabledness of an accept or a skip is settled      *)
(* without a run of the detection pipeline.                                *)

BatchBatches ==
    { <<"one.png", "oops.png">>,
      <<"bad.png", "oops.png">>,
      <<"bad.png", "one_more.png", "oops.png">>,
      <<"three.png">> }

BatchSliderInputs == { <<"max_area", 50>>, <<"min_area", 1>> }

InitBatch == InitWith(BatchBatches)

NextBatch ==
    \/ OnSliderChange(BatchSliderInputs)
    \/ HandleImageLeftClick(SessionClickPoints)
    \/ HandleAccept
    \/ HandleSkip

SpecBatch ==
    InitBatch /\ [][NextBatch]_vars /\ WF_vars(HandleAccept \/ HandleSkip)

====
